---- MODULE Spec2Model ----
(***************************************************************************)
(* A model of the Tattoy Twitch-emote plugin (crates/tattoy-plugin): the   *)
(* render loop of renderer.rs, its two producers (the bot listener task    *)
(* and the STDIN reader thread) and the compositor it runs on every frame. *)
(*                                                                         *)
(* Time is counted in microseconds of the monotonic clock.  Text is a      *)
(* sequence of characters; a character is a one-element string and its     *)
(* UTF-8 encoding is given by Utf8Len.  A u32 is a pair <<hi, lo>> of      *)
(* 16-bit limbs, so that wrapping arithmetic keeps its 32-bit width.       *)
(***************************************************************************)
EXTENDS Integers, Sequences, FiniteSets, TLC

(***************************************************************************)
(* Program constants.                                                      *)
(***************************************************************************)
ONE_MICROSECOND == 1000000

TARGET_FRAME_RATE == 30

\* renderer.rs:148  ONE_MICROSECOND.wrapping_div(TARGET_FRAME_RATE), in microseconds
FramePeriod == ONE_MICROSECOND \div TARGET_FRAME_RATE

\* renderer.rs:316  Duration::from_secs(10)
CleanupSeconds == 10

TTL == CleanupSeconds * ONE_MICROSECOND

\* main.rs:8  tokio::sync::mpsc::channel(16)
ChannelCapacity == 16

(***************************************************************************)
(* Bounds of the model.                                                    *)
(***************************************************************************)
\* how many times the clock is advanced in one behaviour
MaxAdvances == 2

\* how many messages the producers forward in one behaviour, bot
\* notifications and host messages together
MaxMessages == 3

\* the steps by which the clock advances
TimeSteps == {1, TTL - 1}

\* the longest pattern the compositor is given, in characters
MaxPatternLen == 2

\* how many connections wait to be accepted at one time
MaxBacklog == 1

\* the seconds of monotonic time over which frames are counted
CadenceSeconds == 3

CadenceWindow == CadenceSeconds * ONE_MICROSECOND

\* the steps of the clock while frames are counted: the timer's sleep when
\* the tick before was handled within the period, and a handler of a second
CadenceSteps == {FramePeriod, ONE_MICROSECOND}

(***************************************************************************)
(* u32 arithmetic on 16-bit limbs.                                         *)
(***************************************************************************)
Limb == 65536

U32Of(n) == <<n \div Limb, n % Limb>>

\* a - b with the borrow out of bit 31: [value, overflow]
U32Sub(a, b) ==
    LET lo     == a[2] - b[2]
        borrow == IF lo < 0 THEN 1 ELSE 0
        hi     == a[1] - b[1] - borrow
    IN  [value |-> <<hi % Limb, lo % Limb>>, overflow |-> hi < 0]

\* a + b with the carry out of bit 31: [value, overflow]
U32Add(a, b) ==
    LET lo    == a[2] + b[2]
        carry == lo \div Limb
        hi    == a[1] + b[1] + carry
    IN  [value |-> <<hi % Limb, lo % Limb>>, overflow |-> hi >= Limb]

(***************************************************************************)
(* Text: characters, their UTF-8 encoding, and str::find.                  *)
(***************************************************************************)
\* characters that take two bytes in UTF-8; all others of the model take one
WideChars == {"é"}

Utf8Len(c) == IF c \in WideChars THEN 2 ELSE 1

\* the bytes of a character: <<c, k>> is the k-th byte of c's encoding
Utf8Bytes(c) == [k \in 1..Utf8Len(c) |-> <<c, k>>]

RECURSIVE ToBytes(_)
ToBytes(s) == IF s = <<>> THEN <<>> ELSE Utf8Bytes(Head(s)) \o ToBytes(Tail(s))

\* String::len(): the length in bytes
StrLen(s) == Len(ToBytes(s))

\* the length of the prefix in bytes, taken for its length in characters
CharsCountAsBytes(bytes) == Len(bytes)

\* str::chars().count() of a byte string: its lead bytes
CharsCount(bytes) == Cardinality({i \in 1..Len(bytes) : bytes[i][2] = 1})

\* Option<T>: None is the empty sequence and Some(v) the sequence of v alone
None == <<>>

Some(v) == <<v>>

Unwrap(option) == option[1]

\* str::find(pattern): the byte offset of the first occurrence, or None
StrFind(line, pattern) ==
    LET hay    == ToBytes(line)
        needle == ToBytes(pattern)
        hits   == {o \in 0..(Len(hay) - Len(needle)) :
                      SubSeq(hay, o + 1, o + Len(needle)) = needle}
    IN  IF hits = {} THEN None
        ELSE Some(CHOOSE o \in hits : \A p \in hits : o <= p)

(***************************************************************************)
(* The emote catalog (utils.rs) and the images behind it.                  *)
(***************************************************************************)
\* the bundled catalog, global_emotes.json: the "data" array of name/id items
GLOBAL_EMOTES_JSON ==
    << [name |-> "LUL",      id |-> "425618"],
       [name |-> "Kappa",    id |-> "25"],
       [name |-> "Kreygasm", id |-> "41"] >>

\* HashMap::insert: a later item of the same name replaces an earlier one
MapInsert(map, key, value) ==
    [k \in (DOMAIN map) \cup {key} |-> IF k = key THEN value ELSE map[k]]

RECURSIVE InsertAll(_, _)
InsertAll(map, items) ==
    IF items = <<>> THEN map
    ELSE InsertAll(MapInsert(map, Head(items).name, Head(items).id), Tail(items))

EmptyMap == [k \in {} |-> ""]

load_emotes == InsertAll(EmptyMap, GLOBAL_EMOTES_JSON)

global_emotes == load_emotes

\* what the image endpoint serves for an id: a decoded bitmap of one colour,
\* given by its dimensions and the 8-bit channels of its pixels
EmoteImages ==
    [id \in {"425618", "25", "41"} |->
        CASE id = "425618" -> [width |-> 4, height |-> 4, rgb |-> <<255, 0, 51>>]
          [] id = "25"     -> [width |-> 4, height |-> 2, rgb |-> <<0, 102, 255>>]
          [] OTHER         -> [width |-> 2, height |-> 4, rgb |-> <<153, 255, 0>>]]

(***************************************************************************)
(* What the producers can read.                                            *)
(***************************************************************************)
Pattern_tom == <<"t", "o", "m">>

\* a line the bot writes: a BotMessage record, or something serde rejects
BotLines ==
    { [kind |-> "BotMessage", username |-> "tom", regexish |-> Pattern_tom, emote |-> "LUL"],
      [kind |-> "BotMessage", username |-> "tom", regexish |-> Pattern_tom, emote |-> "lul"],
      [kind |-> "Malformed"] }

Cell(x, y, c) == [coordinates |-> <<x, y>>, character |-> c]

\* the terminal updates of the model; cells need not cover the terminal, and
\* the colours of a cell are left out because the plugin never reads them
PTYUpdates ==
    { \* "tom" on the second row
      [kind |-> "PTYUpdate", size |-> <<4, 2>>, cursor |-> <<3, 1>>,
       cells |-> <<Cell(0, 1, "t"), Cell(1, 1, "o"), Cell(2, 1, "m")>>],
      \* "ztom" on the first row
      [kind |-> "PTYUpdate", size |-> <<4, 2>>, cursor |-> <<0, 0>>,
       cells |-> <<Cell(0, 0, "z"), Cell(1, 0, "t"), Cell(2, 0, "o"), Cell(3, 0, "m")>>],
      \* no rows
      [kind |-> "PTYUpdate", size |-> <<4, 0>>, cursor |-> <<0, 0>>, cells |-> <<>>],
      \* no columns
      [kind |-> "PTYUpdate", size |-> <<0, 2>>, cursor |-> <<0, 0>>, cells |-> <<>>] }

\* the cells of a text written from the first column of row y
TextCells(text, y) == [k \in 1..Len(text) |-> Cell(k - 1, y, text[k])]

\* the characters a cell of the compositor's terminals holds
Glyphs == {"a", "é"}

\* the cells of a grid, row by row: grid[k] is the character of the k-th
\* position, or "" where the update carries no cell for it
RECURSIVE GridCells(_, _, _)
GridCells(grid, columns, k) ==
    IF k > Len(grid) THEN <<>>
    ELSE (IF grid[k] = "" THEN <<>>
          ELSE <<Cell((k - 1) % columns, (k - 1) \div columns, grid[k])>>)
            \o GridCells(grid, columns, k + 1)

SnapshotSizes == {<<1, 1>>, <<3, 2>>, <<2, 3>>}

Pattern_world == <<"w", "o", "r", "l", "d">>

\* the terminals the compositor is given: every grid of the sizes above, and
\* snapshots with one row of text, with two cells for one position, with
\* cells outside the terminal and with cells out of order
Snapshots ==
    UNION { { [size |-> size, cursor_position |-> <<0, 0>>,
               cells |-> GridCells(grid, size[1], 1)] :
                  grid \in [1..(size[1] * size[2]) -> Glyphs \cup {""}] } :
            size \in SnapshotSizes }
    \cup
    { [size |-> <<11, 1>>, cursor_position |-> <<0, 0>>,
       cells |-> TextCells(<<"h", "e", "l", "l", "o">>, 0)
                    \o <<Cell(6, 0, "w"), Cell(7, 0, "o"), Cell(8, 0, "r"),
                         Cell(9, 0, "l"), Cell(10, 0, "d")>>],
      [size |-> <<2, 1>>, cursor_position |-> <<0, 0>>,
       cells |-> <<Cell(0, 0, "a"), Cell(0, 0, "é"), Cell(1, 0, "a")>>],
      [size |-> <<2, 1>>, cursor_position |-> <<0, 0>>,
       cells |-> <<Cell(5, 0, "a"), Cell(0, 3, "a"), Cell(1, 0, "é")>>],
      [size |-> <<2, 2>>, cursor_position |-> <<0, 0>>,
       cells |-> <<Cell(1, 1, "a"), Cell(0, 0, "é"), Cell(0, 1, "é")>>] }

\* the patterns the compositor is given
Patterns ==
    UNION {[1..n -> Glyphs] : n \in 1..MaxPatternLen} \cup {Pattern_world}

\* the registries the compositor is given: one emote of any pattern and any
\* image, or such an emote of the first image behind an emote for "a"
Registries ==
    { <<[regexish |-> pattern, image |-> EmoteImages[id], timestamp |-> 0]>> :
          pattern \in Patterns, id \in DOMAIN EmoteImages }
    \cup
    { <<[regexish |-> <<"a">>, image |-> EmoteImages["25"], timestamp |-> 0],
        [regexish |-> pattern, image |-> EmoteImages["425618"], timestamp |-> 0]>> :
          pattern \in Patterns }

\* a line the host writes: one of the two variants of PluginInputMessages,
\* or a line serde rejects (bad JSON, or a variant tag this build does not know)
HostLines ==
    PTYUpdates \cup { [kind |-> "TTYResize"], [kind |-> "Malformed"] }

\* serde_json::from_str::<T>(line) succeeds
Decodes(line) == line.kind # "Malformed"

(***************************************************************************)
(* The compositor: find_text_coordinates, resize, render_emote.            *)
(***************************************************************************)
\* a lookup in which the last cell of a position wins
CharAtLast(cells, x, y) ==
    LET found == {i \in 1..Len(cells) : cells[i].coordinates = <<x, y>>}
    IN  IF found = {} THEN " "
        ELSE cells[CHOOSE i \in found : \A j \in found : i >= j].character

\* cells.iter().find(|cell| cell.coordinates == (x, y)), then its character or ' '
CharAt(cells, x, y) ==
    LET found == {i \in 1..Len(cells) : cells[i].coordinates = <<x, y>>}
    IN  IF found = {} THEN " "
        ELSE cells[CHOOSE i \in found : \A j \in found : i <= j].character

\* the lines rebuilt from the cells: one per row, one character per column
Lines(term) ==
    [y1 \in 1..term.size[2] |->
        [x1 \in 1..term.size[1] |-> CharAt(term.cells, x1 - 1, y1 - 1)]]

\* a search that puts an emote at the origin when its pattern is not found
find_text_coordinates_or_origin(term, regexish) ==
    LET lines   == Lines(term)
        matched == {n \in 1..Len(lines) : StrFind(lines[n], regexish) # None}
    IN  IF matched = {} THEN Some(<<0, 0>>)
        ELSE LET n           == CHOOSE m \in matched : \A k \in matched : m <= k
                 byte_offset == Unwrap(StrFind(lines[n], regexish))
             IN  Some(<<CharsCount(SubSeq(ToBytes(lines[n]), 1, byte_offset)), n - 1>>)

\* Ok(Some((x, y))) or Ok(None)
find_text_coordinates(term, regexish) ==
    LET lines   == Lines(term)
        matched == {n \in 1..Len(lines) : StrFind(lines[n], regexish) # None}
    IN  IF matched = {} THEN None
        ELSE LET n           == CHOOSE m \in matched : \A k \in matched : m <= k
                 byte_offset == Unwrap(StrFind(lines[n], regexish))
             IN  Some(<<CharsCount(SubSeq(ToBytes(lines[n]), 1, byte_offset)), n - 1>>)

\* f64::round of a / b, halves away from zero
RoundDiv(a, b) == (2 * a + b) \div (2 * b)

Max(a, b) == IF a >= b THEN a ELSE b

\* a resize that covers nwidth x nheight instead of fitting in it
ResizeCovering(image, nwidth, nheight) ==
    LET w == image.width
        h == image.height
    IN  IF nwidth * h >= nheight * w
        THEN [image EXCEPT !.width  = Max(RoundDiv(w * nwidth, w), 1),
                           !.height = Max(RoundDiv(h * nwidth, w), 1)]
        ELSE [image EXCEPT !.width  = Max(RoundDiv(w * nheight, h), 1),
                           !.height = Max(RoundDiv(h * nheight, h), 1)]

\* DynamicImage::resize: the largest size within nwidth x nheight that keeps
\* the aspect ratio, never below one pixel
Resize(image, nwidth, nheight) ==
    LET w == image.width
        h == image.height
    IN  IF nwidth * h <= nheight * w
        THEN [image EXCEPT !.width  = Max(RoundDiv(w * nwidth, w), 1),
                           !.height = Max(RoundDiv(h * nwidth, w), 1)]
        ELSE [image EXCEPT !.width  = Max(RoundDiv(w * nheight, h), 1),
                           !.height = Max(RoundDiv(h * nheight, h), 1)]

\* f32::from(channel) / 255.0, as the fraction it denotes
Normalised(channel) == [num |-> channel, den |-> 255]

Opaque == [num |-> 1, den |-> 1]

\* the pixels of one placed emote, row by row; emote_x and emote_y are u32
EmotePixels(resized, emote_x, emote_y) ==
    [k \in 1..(resized.width * resized.height) |->
        LET pixel_x == (k - 1) % resized.width
            pixel_y == (k - 1) \div resized.width
        IN  [coordinates |-> <<U32Add(emote_x, U32Of(pixel_x)).value,
                               U32Add(emote_y, U32Of(pixel_y)).value>>,
             color |-> <<Normalised(resized.rgb[1]), Normalised(resized.rgb[2]),
                         Normalised(resized.rgb[3]), Opaque>>]]

\* render_emote: the output after this emote, or a panic when the build checks
\* integer overflow and the vertical anchor underflows
render_emote(term, out, emote, checks) ==
    LET maybe_match == find_text_coordinates(term, emote.regexish)
    IN  IF maybe_match = None THEN [status |-> "ok", output |-> out]
        ELSE LET match_x == Unwrap(maybe_match)[1]
                 match_y == Unwrap(maybe_match)[2]
                 emote_resized == Resize(emote.image, StrLen(emote.regexish), term.size[2])
                 half_the_emote_height == emote_resized.height \div 2
                 emote_x == U32Of(match_x)
                 emote_y == U32Sub(U32Of(match_y * 2), U32Of(half_the_emote_height))
             IN  IF emote_y.overflow /\ checks
                 THEN [status |-> "panic", output |-> out]
                 ELSE [status |-> "ok",
                       output |-> out \o EmotePixels(emote_resized, emote_x, emote_y.value)]

\* the loop of render_emotes: each emote in turn, until one fails
RECURSIVE RenderEach(_, _, _, _)
RenderEach(term, out, emotes, checks) ==
    IF emotes = <<>> THEN [status |-> "ok", output |-> out]
    ELSE LET one == render_emote(term, out, Head(emotes), checks)
         IN  IF one.status # "ok" THEN one
             ELSE RenderEach(term, one.output, Tail(emotes), checks)

\* a pass that keeps the pixels of the frame before
render_emotes_appending(term, out, emotes, checks) ==
    RenderEach(term, out, emotes, checks)

\* render_emotes: self.output, `out` before the pass, is replaced by an empty
\* list and every emote of the cloned registry is drawn in turn
render_emotes(term, out, emotes, checks) == RenderEach(term, <<>>, emotes, checks)

\* cleanup with the comparison off by one: an emote of exactly ten seconds stays
cleanup_keeps_boundary(emotes, instant) ==
    SelectSeq(emotes, LAMBDA emote : instant - emote.timestamp <= TTL)

\* cleanup: Vec::retain of the emotes younger than ten seconds
cleanup(emotes, instant) ==
    SelectSeq(emotes, LAMBDA emote : instant - emote.timestamp < TTL)

\* render's guard with `&&` for `||`: only a terminal of no columns and no rows
render_skips_both_zero(size) == size[1] = 0 /\ size[2] = 0

\* render's guard: nothing is drawn on a terminal without columns or rows
render_skips(size) == size[1] = 0 \/ size[2] = 0

\* a lookup that falls back to the first emote of the catalog
resolve_emote_with_default(code) ==
    IF code \in DOMAIN global_emotes THEN Some(global_emotes[code])
    ELSE Some(GLOBAL_EMOTES_JSON[1].id)

\* global_emotes.get(&code)
resolve_emote(code) ==
    IF code \in DOMAIN global_emotes THEN Some(global_emotes[code]) ELSE None

\* an update that is merged into the snapshot: the cells of before stay
handle_tattoy_message_merging(term, message) ==
    CASE message.kind = "PTYUpdate" ->
            [status |-> "ok",
             tty |-> [size |-> message.size, cells |-> term.cells \o message.cells,
                      cursor_position |-> message.cursor]]
      [] OTHER -> [status |-> "panic", tty |-> term]

\* handle_tattoy_message: the new terminal, or a panic (todo!, unreachable!)
handle_tattoy_message(term, message) ==
    CASE message.kind = "PTYUpdate" ->
            [status |-> "ok",
             tty |-> [size |-> message.size, cells |-> message.cells,
                      cursor_position |-> message.cursor]]
      [] message.kind = "TTYResize" -> [status |-> "panic", tty |-> term]
      [] OTHER -> [status |-> "panic", tty |-> term]

\* a select! that gives up once a channel is closed
select_ready_until_closed(elapsed, bot_queue, bot_closed, host_queue, host_closed) ==
    IF bot_closed \/ host_closed THEN {}
    ELSE {arm \in {"tick"} : elapsed >= FramePeriod}
            \cup {arm \in {"bot"} : bot_queue # <<>>}
            \cup {arm \in {"host"} : host_queue # <<>>}

\* an emote put in front of the registry
push_front(emotes, emote) == <<emote>> \o emotes

\* Vec::push
push(emotes, emote) == Append(emotes, emote)

\* a terminal update that also empties the registry
after_host_clearing_emotes(plugin, message) ==
    [tty |-> handle_tattoy_message(plugin.tty, message).tty, active_emotes |-> <<>>]

\* the terminal and the registry after handle_tattoy_message: only the
\* fields of self.tty are assigned
after_host(plugin, message) ==
    [plugin EXCEPT !.tty = handle_tattoy_message(plugin.tty, message).tty]

\* an emote stamped with the instant its notification was received
emote_timestamp_on_arrival(received, inserted) == received

\* add_active_emote builds the ActiveEmote after get_emote_image has returned:
\* Instant::now() is read at that point
emote_timestamp(received, inserted) == inserted

\* a notification that also empties the cells of the terminal
after_bot_clearing_cells(plugin, message, instant) ==
    [tty |-> [plugin.tty EXCEPT !.cells = <<>>], active_emotes |-> plugin.active_emotes]

\* the terminal and the registry after handle_bot_message, the image fetched
\* at `instant`: an emote is pushed when the code is in the catalog
after_bot(plugin, message, instant) ==
    LET id == resolve_emote(message.emote)
    IN  IF id = None THEN plugin
        ELSE [plugin EXCEPT !.active_emotes =
                 push(@, [regexish  |-> message.regexish,
                          image     |-> EmoteImages[Unwrap(id)],
                          timestamp |-> instant])]

\* a timer that counts periods: the tick is stamped one period after the last
tick_instant_accumulated(last, instant) == last + FramePeriod

\* sleep_until_next_frame_tick stamps the tick with the instant the sleep ended
tick_instant(last, instant) == instant

\* a timer that starts over whenever another arm wins the select
sleep_dropped_restamping(last, instant) == instant

\* sleep_until_next_frame_tick dropped at its await, another arm having won the
\* select: the assignment after the sleep is not reached
sleep_dropped(last, instant) == last

\* a select! whose timer arm completes at once, without the sleep
select_ready_without_sleep(elapsed, bot_queue, bot_closed, host_queue, host_closed) ==
    {arm \in {"tick"} : elapsed >= 0}
        \cup {arm \in {"bot"} : bot_queue # <<>>}
        \cup {arm \in {"host"} : host_queue # <<>>}

\* the arms of select! that can complete now: the frame timer when a frame
\* period has passed since the last tick, a channel when recv() yields Some.
\* A closed and drained channel yields None, which only disables its arm.
select_ready(elapsed, bot_queue, bot_closed, host_queue, host_closed) ==
    {arm \in {"tick"} : elapsed >= FramePeriod}
        \cup {arm \in {"bot"} : bot_queue # <<>>}
        \cup {arm \in {"host"} : host_queue # <<>>}

(***************************************************************************)
(* The chat bot: the command of a chat message.  Its clock counts minutes. *)
(***************************************************************************)
ONE_HOUR == 60

\* arrived plays a sound when at least this many whole hours have elapsed
ArrivalCooldownHours == 12

\* get_mate inserts a new mate as last played one year before now
ONE_YEAR == 365 * 24 * ONE_HOUR

MaxEvents == 3

MaxWaits == 2

MaxTextLen == 3

ChatSteps == {1, ArrivalCooldownHours * ONE_HOUR - 1}

\* the time that sending the reply takes, before set_last_played reads the clock
ReplyDelays == {0, 1}

Users == {"tom", "ann"}

Letters == {"!", " ", "a"}

Command_arrived == <<"a", "r", "r", "i", "v", "e", "d">>

Command_chirp == <<"c", "h", "i", "r", "p">>

\* the texts of chat messages: every short text of the letters, and the two
\* commands that touch the table of mates
Texts ==
    UNION {[1..n -> Letters] : n \in 1..MaxTextLen}
        \cup {<<"!">> \o Command_arrived, <<"!">> \o Command_chirp}

\* char::is_whitespace
IsWhitespace(c) == c \in {" ", "\t"}

\* str::strip_prefix with a prefix of one character
strip_prefix(text, prefix) ==
    IF Len(text) >= 1 /\ text[1] = prefix THEN Some(Tail(text)) ELSE None

\* the first index from i on that holds whitespace, Len(text) + 1 without one
RECURSIVE FirstWhitespace(_, _)
FirstWhitespace(text, i) ==
    IF i > Len(text) \/ IsWhitespace(text[i]) THEN i
    ELSE FirstWhitespace(text, i + 1)

\* the first index from i on that holds no whitespace, Len(text) + 1 without one
RECURSIVE FirstLetter(_, _)
FirstLetter(text, i) ==
    IF i > Len(text) \/ ~IsWhitespace(text[i]) THEN i
    ELSE FirstLetter(text, i + 1)

\* str::split_whitespace().next(): the first run of characters that are not
\* whitespace, None when the text has none
split_whitespace_next(text) ==
    LET start == FirstLetter(text, 1)
    IN  IF start > Len(text) THEN None
        ELSE Some(SubSeq(text, start, FirstWhitespace(text, start) - 1))

\* str::split_once(char::is_whitespace): the text before and the text after
\* the first whitespace character
split_once(text) ==
    LET at == FirstWhitespace(text, 1)
    IN  IF at > Len(text) THEN None
        ELSE Some(<<SubSeq(text, 1, at - 1), SubSeq(text, at + 1, Len(text))>>)

\* the chat message arm of handle_event after save_message: the command word
\* and its arguments.  next().unwrap() panics when there is no word
chat_command(text) ==
    LET original == strip_prefix(text, "!")
    IN  IF original = None THEN [status |-> "none"]
        ELSE LET word       == split_whitespace_next(Unwrap(original))
                 maybe_more == split_once(Unwrap(original))
             IN  IF word = None THEN [status |-> "panic"]
                 ELSE [status    |-> "command",
                       command   |-> Unwrap(word),
                       arguments |-> IF maybe_more = None THEN None
                                     ELSE Some(Unwrap(maybe_more)[2])]

\* chrono's TimeDelta::num_hours: whole hours, truncated towards zero
num_hours(minutes) ==
    IF minutes >= 0 THEN minutes \div ONE_HOUR ELSE -((-minutes) \div ONE_HOUR)

(***************************************************************************)
(* State.                                                                  *)
(***************************************************************************)
VARIABLES
    tty,              \* Plugin.tty: size, cursor_position, cells
    active_emotes,    \* Plugin.active_emotes
    output,           \* Plugin.output
    last_frame_tick,  \* Plugin.last_frame_tick
    now,              \* the monotonic clock
    advances,         \* how often the clock has advanced
    overflow_checks,  \* whether this build panics on integer overflow
    message_budget,   \* how many messages the producers forward in this behaviour
    pc,               \* where Plugin::start is: "select", "fetching", "exited", "panicked"
    pending,          \* the BotMessage whose image is being fetched, if any,
                      \* with the instant it was taken from the channel
    bot_messages,     \* the unbounded channel from the bot listener
    tattoy_messages,  \* the channel of 16 from the STDIN reader
    listener,         \* bot_listener: "binding", "accepting", "reading", "ended"
    backlog,          \* connections not yet accepted: the lines written on each
    stream,           \* the unread lines of the connection being read
    reader,           \* listen_for_tattoy_messages: "reading", "ended"
    host_lines,       \* messages the reader has forwarded
    stdout,           \* OutputPixels records written to STDOUT
    warnings,         \* warnings logged
    fetches,          \* calls of get_emote_image
    cleaned           \* the emotes removed by the latest cleanup

VARIABLES
    utc,              \* the chat bot's clock, chrono::Utc::now()
    mate,             \* the table mate: last_played of each name that has a row
    sounds,           \* the users with an arrival sound file
    spawned,          \* the instants mpv was spawned with each user's arrival sound
    bot_status,       \* the chat bot: "running", "panicked"
    printed,          \* the latest chat message printed by handle_event
    dispatched,       \* the command and arguments given to command for it, if any
    events,           \* chat messages handled
    waits             \* how often the chat bot's clock has advanced

chat_vars == <<utc, mate, sounds, spawned, bot_status, printed, dispatched,
               events, waits>>

vars == <<tty, active_emotes, output, last_frame_tick, now, advances,
          overflow_checks, message_budget, pc, pending, bot_messages, tattoy_messages,
          listener, backlog, stream, reader, host_lines,
          stdout, warnings, fetches, cleaned, chat_vars>>

plugin_vars == <<tty, active_emotes, output, last_frame_tick>>

clock_vars == <<now, advances>>

listener_vars == <<listener, backlog, stream>>

reader_vars == <<reader, host_lines>>

log_vars == <<stdout, warnings, fetches>>

\* the chat bot connected, with no mate in the table yet and arrival sound
\* files for the users `files`
ChatStarted(files) ==
    /\ utc = ONE_YEAR
    /\ mate = [username \in Users |-> None]
    /\ sounds = files
    /\ spawned = [username \in Users |-> <<>>]
    /\ bot_status = "running"
    /\ printed = None
    /\ dispatched = None
    /\ events = 0
    /\ waits = 0

\* Plugin::new, with the listener task spawned and the reader thread started
Init ==
    /\ tty = [size |-> <<0, 0>>, cursor_position |-> <<0, 0>>, cells |-> <<>>]
    /\ active_emotes = <<>>
    /\ output = <<>>
    /\ last_frame_tick = 0
    /\ now = 0
    /\ advances = 0
    /\ overflow_checks \in BOOLEAN
    /\ message_budget = MaxMessages
    /\ pc = "select"
    /\ pending = None
    /\ bot_messages = <<>>
    /\ tattoy_messages = <<>>
    /\ listener = "binding"
    /\ backlog = <<>>
    /\ stream = <<>>
    /\ reader = "reading"
    /\ host_lines = 0
    /\ stdout = 0
    /\ warnings = 0
    /\ fetches = 0
    /\ cleaned = <<>>
    /\ ChatStarted({})

\* the state of Init but for the terminal, the registry, the clock and the
\* number of messages the producers forward
Started(term, emotes, instant, allowance) ==
    /\ tty = term
    /\ active_emotes = emotes
    /\ output = <<>>
    /\ last_frame_tick = 0
    /\ now = instant
    /\ advances = 0
    /\ overflow_checks \in BOOLEAN
    /\ message_budget = allowance
    /\ pc = "select"
    /\ pending = None
    /\ bot_messages = <<>>
    /\ tattoy_messages = <<>>
    /\ listener = "binding"
    /\ backlog = <<>>
    /\ stream = <<>>
    /\ reader = "reading"
    /\ host_lines = 0
    /\ stdout = 0
    /\ warnings = 0
    /\ fetches = 0
    /\ cleaned = <<>>
    /\ ChatStarted({})

\* the process runs: start has neither returned an error nor panicked
Alive == pc \in {"select", "fetching"}

\* the sender of a channel is dropped when its producer has returned
ListenerDone == listener = "ended"

ReaderDone == reader = "ended"

\* the messages forwarded so far: the notifications queued or handled (each
\* handled one logged a warning or started a fetch) and the host's messages
Forwarded == Len(bot_messages) + warnings + fetches + host_lines

\* the fields of Plugin that the two message handlers write
Plugin == [tty |-> tty, active_emotes |-> active_emotes]

Ready ==
    select_ready(now - last_frame_tick, bot_messages, ListenerDone,
                 tattoy_messages, ReaderDone)

(***************************************************************************)
(* The render loop, Plugin::start.                                         *)
(***************************************************************************)
\* the loop is at select! and the arm can complete
TickArm == pc = "select" /\ "tick" \in Ready

BotArm == pc = "select" /\ "bot" \in Ready

HostArm == pc = "select" /\ "host" \in Ready

\* the timer arm: sleep_until_next_frame_tick completes, then render
FrameTick ==
    /\ TickArm
    /\ last_frame_tick' = tick_instant(last_frame_tick, now)
    /\ IF render_skips(tty.size)
       THEN UNCHANGED <<active_emotes, output, pc, stdout, cleaned>>
       ELSE LET kept     == cleanup(active_emotes, now)
                rendered == render_emotes(tty, output, kept, overflow_checks)
            IN  /\ active_emotes' = kept
                /\ cleaned' = SelectSeq(active_emotes,
                                        LAMBDA emote : ~(now - emote.timestamp < TTL))
                /\ output' = rendered.output
                /\ IF rendered.status = "panic"
                   THEN /\ pc' = "panicked"
                        /\ UNCHANGED stdout
                   ELSE \E written \in BOOLEAN :
                            IF written
                            THEN /\ stdout' = stdout + 1
                                 /\ UNCHANGED pc
                            ELSE /\ pc' = "exited"
                                 /\ UNCHANGED stdout
    /\ UNCHANGED <<tty, clock_vars, overflow_checks, message_budget, chat_vars, pending, bot_messages,
                   tattoy_messages, listener_vars, reader_vars, warnings, fetches>>

\* the bot arm: handle_bot_message, up to the await of get_emote_image
HandleBot ==
    /\ BotArm
    /\ LET message == Head(bot_messages)
       IN  /\ bot_messages' = Tail(bot_messages)
           /\ IF resolve_emote(message.emote) # None
              THEN /\ pc' = "fetching"
                   /\ pending' = Some([message |-> message, arrived |-> now])
                   /\ fetches' = fetches + 1
                   /\ UNCHANGED warnings
              ELSE /\ warnings' = warnings + 1
                   /\ UNCHANGED <<pc, pending, fetches>>
    /\ last_frame_tick' = sleep_dropped(last_frame_tick, now)
    /\ UNCHANGED <<tty, active_emotes, output, clock_vars, overflow_checks,
                   message_budget, chat_vars, tattoy_messages,
                   listener_vars, reader_vars, stdout, cleaned>>

\* get_emote_image returns the image: the emote is stamped and pushed
FetchReturns ==
    /\ pc = "fetching"
    /\ LET after == after_bot(Plugin, Unwrap(pending).message,
                           emote_timestamp(Unwrap(pending).arrived, now))
       IN  /\ tty' = after.tty
           /\ active_emotes' = after.active_emotes
    /\ pc' = "select"
    /\ pending' = None
    /\ UNCHANGED <<output, last_frame_tick, clock_vars, overflow_checks, message_budget, chat_vars,
                   bot_messages, tattoy_messages, listener_vars, reader_vars,
                   log_vars, cleaned>>

\* get_emote_image returns an error (request or PNG decoding): `?` returns it
\* from add_active_emote, handle_bot_message and start
FetchFails ==
    /\ pc = "fetching"
    /\ pc' = "exited"
    /\ pending' = None
    /\ UNCHANGED <<plugin_vars, clock_vars, overflow_checks, message_budget, chat_vars, bot_messages,
                   tattoy_messages, listener_vars, reader_vars, log_vars, cleaned>>

\* the host arm: handle_tattoy_message
HandleTattoy ==
    /\ HostArm
    /\ LET handled == handle_tattoy_message(tty, Head(tattoy_messages))
           after   == after_host(Plugin, Head(tattoy_messages))
       IN  /\ tty' = after.tty
           /\ active_emotes' = after.active_emotes
           /\ IF handled.status = "ok"
              THEN UNCHANGED pc
              ELSE pc' = "panicked"
    /\ tattoy_messages' = Tail(tattoy_messages)
    /\ last_frame_tick' = sleep_dropped(last_frame_tick, now)
    /\ UNCHANGED <<output, clock_vars,
                   overflow_checks, message_budget, chat_vars, pending, bot_messages,
                   listener_vars,
                   reader_vars, log_vars, cleaned>>

(***************************************************************************)
(* The clock.                                                              *)
(***************************************************************************)
Advance ==
    /\ Alive
    /\ advances < MaxAdvances
    /\ \E step \in TimeSteps : now' = now + step
    /\ advances' = advances + 1
    /\ UNCHANGED <<plugin_vars, overflow_checks, message_budget, chat_vars, pc, pending, bot_messages,
                   tattoy_messages, listener_vars, reader_vars, log_vars,
                   cleaned>>

\* the clock while frames are counted, up to the end of the window
Elapse ==
    /\ Alive
    /\ \E step \in CadenceSteps :
          /\ now + step <= CadenceWindow
          /\ now' = now + step
    /\ UNCHANGED <<plugin_vars, advances, overflow_checks, message_budget, chat_vars, pc, pending,
                   bot_messages, tattoy_messages, listener_vars, reader_vars,
                   log_vars, cleaned>>

(***************************************************************************)
(* The bot listener task, Plugin::bot_listener.  Whether it returns Ok or  *)
(* an error only changes what is logged: either way the task has ended and *)
(* its sender is dropped.                                                  *)
(***************************************************************************)
loop_vars == <<plugin_vars, clock_vars, overflow_checks, message_budget, chat_vars, pc, pending,
               log_vars, cleaned>>

\* remove_file and UnixListener::bind: the socket is bound, or `?` returns
ListenerBinds ==
    /\ Alive
    /\ listener = "binding"
    /\ \E bound \in BOOLEAN : listener' = IF bound THEN "accepting" ELSE "ended"
    /\ UNCHANGED <<loop_vars, bot_messages, tattoy_messages, backlog, stream,
                   reader_vars>>

\* a bot process connects to the bound socket and writes one notification
\* while the listener is not at accept(): the connection waits to be accepted
BotConnects ==
    /\ Alive
    /\ listener \in {"accepting", "reading"}
    /\ Len(backlog) < MaxBacklog
    /\ \E line \in BotLines :
          /\ Decodes(line)
          /\ backlog' = Append(backlog, <<line>>)
    /\ UNCHANGED <<loop_vars, bot_messages, tattoy_messages, listener, stream,
                   reader_vars>>

\* the listener task is awaiting listener.accept()
AcceptArm == listener = "accepting"

\* listener.accept() yields a connection, the oldest one waiting if any: the
\* inner loop reads it
ListenerAccepts ==
    /\ Alive
    /\ AcceptArm
    /\ listener' = "reading"
    /\ IF backlog = <<>>
       THEN /\ stream' = <<>>
            /\ UNCHANGED backlog
       ELSE /\ stream' = Head(backlog)
            /\ backlog' = Tail(backlog)
    /\ UNCHANGED <<loop_vars, bot_messages, tattoy_messages, reader_vars>>

\* listener.accept() fails: break, and bot_listener returns
ListenerAcceptFails ==
    /\ Alive
    /\ AcceptArm
    /\ listener' = "ended"
    /\ UNCHANGED <<loop_vars, bot_messages, tattoy_messages, backlog, stream,
                   reader_vars>>

\* read_line reads a line that decodes, an unread one of the connection or
\* one the bot writes now: it is sent and the buffer cleared
ListenerForwards ==
    /\ Alive
    /\ listener = "reading"
    /\ Forwarded < message_budget
    /\ IF stream # <<>>
       THEN /\ bot_messages' = Append(bot_messages, Head(stream))
            /\ stream' = Tail(stream)
       ELSE /\ \E line \in BotLines :
                  /\ Decodes(line)
                  /\ bot_messages' = Append(bot_messages, line)
            /\ UNCHANGED stream
    /\ UNCHANGED <<loop_vars, tattoy_messages, listener, backlog, reader_vars>>

\* read_line reads a line that does not decode: `?` returns from bot_listener
ListenerDecodeFails ==
    /\ Alive
    /\ listener = "reading"
    /\ stream = <<>>
    /\ \E line \in BotLines : ~Decodes(line)
    /\ listener' = "ended"
    /\ UNCHANGED <<loop_vars, bot_messages, tattoy_messages, backlog, stream,
                   reader_vars>>

\* read_line reads nothing (the bot has disconnected) or fails: break to the
\* next accept, and the connection is dropped with what was unread
ListenerDisconnected ==
    /\ Alive
    /\ listener = "reading"
    /\ listener' = "accepting"
    /\ stream' = <<>>
    /\ UNCHANGED <<loop_vars, bot_messages, tattoy_messages, backlog,
                   reader_vars>>

(***************************************************************************)
(* The STDIN reader thread, listen_for_tattoy_messages.                    *)
(***************************************************************************)
\* a line that decodes is sent; blocking_send waits while the channel is full
ReaderForwards ==
    /\ Alive
    /\ reader = "reading"
    /\ Forwarded < message_budget
    /\ Len(tattoy_messages) < ChannelCapacity
    /\ \E line \in HostLines :
          /\ Decodes(line)
          /\ tattoy_messages' = Append(tattoy_messages, line)
    /\ host_lines' = host_lines + 1
    /\ UNCHANGED <<loop_vars, bot_messages, listener_vars, reader>>

\* a line that does not decode: `?` returns the error and the thread ends
ReaderDecodeFails ==
    /\ Alive
    /\ reader = "reading"
    /\ \E line \in HostLines : ~Decodes(line)
    /\ reader' = "ended"
    /\ UNCHANGED <<loop_vars, bot_messages, tattoy_messages, listener_vars,
                   host_lines>>

\* STDIN ends, or reading it fails (`maybe_line?`): the thread ends
ReaderEnds ==
    /\ Alive
    /\ reader = "reading"
    /\ reader' = "ended"
    /\ UNCHANGED <<loop_vars, bot_messages, tattoy_messages, listener_vars,
                   host_lines>>

(***************************************************************************)
(* The chat bot, Bot::handle_event for a chat message.                     *)
(***************************************************************************)
\* everything of the plugin process, which the chat bot does not touch
tattoy_plugin_vars ==
    <<plugin_vars, clock_vars, overflow_checks, message_budget, pc, pending,
      bot_messages, tattoy_messages, listener_vars, reader_vars, log_vars,
      cleaned>>

\* the table after the INSERT ... ON CONFLICT DO NOTHING of get_mate
get_mate(username) ==
    IF mate[username] = None
    THEN [mate EXCEPT ![username] = Some(utc - ONE_YEAR)]
    ELSE mate

\* Bot::arrived.  Each request to the database, the spawn of mpv and the reply
\* can fail, and `?` returns from there
arrived(username) ==
    \E inserted, selected \in BOOLEAN :
        LET rows == IF inserted THEN get_mate(username) ELSE mate
        IN  IF ~(inserted /\ selected)
            THEN /\ mate' = rows
                 /\ UNCHANGED <<utc, spawned>>
            ELSE IF \/ num_hours(utc - Unwrap(rows[username])) < ArrivalCooldownHours
                    \/ username \notin sounds
            THEN /\ mate' = rows
                 /\ UNCHANGED <<utc, spawned>>
            ELSE \E spawns, replied, updated \in BOOLEAN, delay \in ReplyDelays :
                    /\ spawned' = IF spawns
                                  THEN [spawned EXCEPT ![username] = Append(@, utc)]
                                  ELSE spawned
                    /\ utc' = IF spawns THEN utc + delay ELSE utc
                    /\ mate' = IF spawns /\ replied /\ updated
                               THEN [rows EXCEPT ![username] = Some(utc + delay)]
                               ELSE rows

\* Bot::chirp: of the state kept here it touches the table only, when a run
\* of rubber chickens ends and chicken_run_end calls get_mate
chirp(username) ==
    /\ \E inserted \in BOOLEAN :
          mate' = IF inserted THEN get_mate(username) ELSE mate
    /\ UNCHANGED <<utc, spawned>>

\* Bot::command: osd and text_responder leave the table and the sounds alone
command(username, word) ==
    IF word = Command_arrived THEN arrived(username)
    ELSE IF word = Command_chirp THEN chirp(username)
    ELSE UNCHANGED <<utc, mate, spawned>>

\* a chat message arrives: it is printed and saved, and when its text starts
\* with "!" its first word is dispatched as a command
ChatMessage ==
    /\ bot_status = "running"
    /\ events < MaxEvents
    /\ events' = events + 1
    /\ \E username \in Users, text \in Texts, saved \in BOOLEAN :
          LET parsed == chat_command(text)
          IN  /\ printed' = Some([chatter_user_name |-> username, text |-> text])
              /\ IF ~saved \/ parsed.status = "none"
                 THEN /\ dispatched' = None
                      /\ UNCHANGED <<utc, mate, spawned, bot_status>>
                 ELSE IF parsed.status = "panic"
                 THEN /\ dispatched' = None
                      /\ bot_status' = "panicked"
                      /\ UNCHANGED <<utc, mate, spawned>>
                 ELSE /\ dispatched' = Some([command   |-> parsed.command,
                                             arguments |-> parsed.arguments])
                      /\ command(username, parsed.command)
                      /\ UNCHANGED bot_status
    /\ UNCHANGED <<sounds, waits, tattoy_plugin_vars>>

\* time passes between chat messages
ChatWaits ==
    /\ bot_status = "running"
    /\ waits < MaxWaits
    /\ waits' = waits + 1
    /\ \E step \in ChatSteps : utc' = utc + step
    /\ UNCHANGED <<mate, sounds, spawned, bot_status, printed, dispatched,
                   events, tattoy_plugin_vars>>

(***************************************************************************)
(* The specification.                                                      *)
(***************************************************************************)
Next ==
    \/ FrameTick
    \/ HandleBot
    \/ FetchReturns
    \/ FetchFails
    \/ HandleTattoy
    \/ Advance
    \/ ListenerBinds
    \/ ListenerAccepts
    \/ ListenerAcceptFails
    \/ ListenerForwards
    \/ ListenerDecodeFails
    \/ ListenerDisconnected
    \/ ReaderForwards
    \/ ReaderDecodeFails
    \/ ReaderEnds

Spec == Init /\ [][Next]_vars

\* the frame cadence: the loop with a terminal that has a size, the
\* channels idle, over CadenceSeconds of the clock
CadenceInit ==
    \E update \in PTYUpdates :
        /\ ~render_skips(update.size)
        /\ Started([size |-> update.size, cursor_position |-> update.cursor,
                    cells |-> update.cells], <<>>, 0, MaxMessages)

CadenceNext ==
    \/ FrameTick
    \/ Elapse

SpecCadence == CadenceInit /\ [][CadenceNext]_vars

\* the compositor: a frame is due on a terminal and a registry as an update
\* and the notifications of the first instant have left them
CompositorInit ==
    \E term \in Snapshots, emotes \in Registries :
        Started(term, emotes, FramePeriod, MaxMessages)

CompositorNext == FrameTick

SpecCompositor == CompositorInit /\ [][CompositorNext]_vars

\* the bot channel while the loop does not take from it: the listener
\* forwards more notifications than the host channel has room for
ChannelsInit ==
    Started([size |-> <<0, 0>>, cursor_position |-> <<0, 0>>, cells |-> <<>>],
            <<>>, 0, ChannelCapacity + 1)

ChannelsNext ==
    \/ ListenerBinds
    \/ ListenerAccepts
    \/ ListenerForwards

SpecChannels == ChannelsInit /\ [][ChannelsNext]_vars

\* the listener with several bot connections, and the loop's bot arm
ListenerNext ==
    \/ ListenerBinds
    \/ BotConnects
    \/ ListenerAccepts
    \/ ListenerAcceptFails
    \/ ListenerForwards
    \/ ListenerDecodeFails
    \/ ListenerDisconnected
    \/ HandleBot
    \/ FetchReturns
    \/ FetchFails

SpecListener == Init /\ [][ListenerNext]_vars

\* the chat bot alone, beside a plugin that has just started
BotInit ==
    /\ \E files \in SUBSET Users : ChatStarted(files)
    /\ tty = [size |-> <<0, 0>>, cursor_position |-> <<0, 0>>, cells |-> <<>>]
    /\ active_emotes = <<>>
    /\ output = <<>>
    /\ last_frame_tick = 0
    /\ now = 0
    /\ advances = 0
    /\ overflow_checks = FALSE
    /\ message_budget = MaxMessages
    /\ pc = "select"
    /\ pending = None
    /\ bot_messages = <<>>
    /\ tattoy_messages = <<>>
    /\ listener = "binding"
    /\ backlog = <<>>
    /\ stream = <<>>
    /\ reader = "reading"
    /\ host_lines = 0
    /\ stdout = 0
    /\ warnings = 0
    /\ fetches = 0
    /\ cleaned = <<>>

BotNext ==
    \/ ChatMessage
    \/ ChatWaits

SpecBot == BotInit /\ [][BotNext]_vars

TypeOK ==
    /\ pc \in {"select", "fetching", "exited", "panicked"}
    /\ listener \in {"binding", "accepting", "reading", "ended"}
    /\ reader \in {"reading", "ended"}
    /\ Len(tattoy_messages) <= ChannelCapacity
    /\ (pc = "fetching") = (pending # None)

(***************************************************************************)
(* Steps of the render loop, as the claims name them.                      *)
(***************************************************************************)
\* the frame timer is due
TickDue == now - last_frame_tick >= FramePeriod

\* this step is a frame tick: only a tick moves last_frame_tick
TickFires == last_frame_tick' # last_frame_tick

\* this step takes a notification from the bot channel
BotHandled == Len(bot_messages') < Len(bot_messages)

\* this step takes a message from the host channel
HostHandled == Len(tattoy_messages') < Len(tattoy_messages)

\* this step ends a fetch without an emote being pushed
FetchFailed ==
    /\ pc = "fetching"
    /\ pc' # "fetching"
    /\ Len(active_emotes') = Len(active_emotes)

(***************************************************************************)
(* C1.  While an image fetch is outstanding the frame scheduler is not     *)
(* suspended: whenever a fetch is outstanding and a frame tick is due, the *)
(* loop is at its select! and the timer arm can complete.                  *)
(***************************************************************************)
C1_TickCanFireDuringFetch ==
    (pending # None /\ TickDue) => TickArm

(***************************************************************************)
(* C2.  Handling a host message that is not a terminal update is a no-op:  *)
(* the terminal, the registry and the output are unchanged and the loop    *)
(* keeps waiting for events.                                               *)
(***************************************************************************)
C2_OtherHostMessagesIgnored ==
    [][(HostHandled /\ Head(tattoy_messages).kind # "PTYUpdate")
          => /\ tty' = tty
             /\ active_emotes' = active_emotes
             /\ output' = output
             /\ stdout' = stdout
             /\ pc' = "select"]_vars

(***************************************************************************)
(* C3.  A failed image fetch drops only its notification: nothing is       *)
(* inserted, the registry and the terminal are unchanged, and the loop     *)
(* goes back to waiting for events.                                        *)
(***************************************************************************)
C3_FetchFailureDropsNotification ==
    [][FetchFailed
          => /\ active_emotes' = active_emotes
             /\ tty' = tty
             /\ pc' = "select"]_vars

(***************************************************************************)
(* C4.  When cleanup runs at instant `now`, exactly the emotes younger     *)
(* than ten seconds stay, in their order; an emote of exactly ten seconds  *)
(* is removed.                                                             *)
(***************************************************************************)
C4_ExpireKeepsYoungInOrder ==
    [][(TickFires /\ tty.size[1] # 0 /\ tty.size[2] # 0)
          => LET young == {i \in 1..Len(active_emotes) :
                              now - active_emotes[i].timestamp < TTL}
             IN  /\ Len(active_emotes') = Cardinality(young)
                 /\ \A i \in young :
                       active_emotes'[Cardinality({j \in young : j <= i})]
                           = active_emotes[i]]_vars

\* a cleanup has removed an emote of exactly ten seconds and kept a younger one
C4_Witness ==
    /\ \E i \in 1..Len(cleaned) : last_frame_tick - cleaned[i].timestamp = TTL
    /\ \E i \in 1..Len(active_emotes) :
          /\ active_emotes[i].timestamp < last_frame_tick
          /\ last_frame_tick - active_emotes[i].timestamp < TTL

(***************************************************************************)
(* C5.  Every frame tick expires stale emotes, also a tick skipped for a   *)
(* terminal of zero size: after a tick the registry holds no emote that    *)
(* was ten seconds old or older at that tick.                              *)
(***************************************************************************)
C5_NoStaleEmoteAfterTick ==
    \A i \in 1..Len(active_emotes) :
        active_emotes[i].timestamp <= last_frame_tick
            => last_frame_tick - active_emotes[i].timestamp < TTL

(***************************************************************************)
(* C6.  A frame tick on a terminal of zero columns or zero rows writes no  *)
(* frame and composites nothing, and the loop keeps waiting for events.    *)
(***************************************************************************)
C6_ZeroSizeTickSkips ==
    [][(TickFires /\ (tty.size[1] = 0 \/ tty.size[2] = 0))
          => /\ stdout' = stdout
             /\ output' = output
             /\ active_emotes' = active_emotes
             /\ pc' = "select"]_vars

\* a tick has fired on a terminal that never had a row, with an emote active:
\* one host message was forwarded and it set four columns and no rows
C6_Witness ==
    /\ host_lines = 1
    /\ tty.size = <<4, 0>>
    /\ last_frame_tick > 0
    /\ active_emotes # <<>>
    /\ stdout = 0
    /\ pc = "select"

(***************************************************************************)
(* C7.  A notification whose emote code is no key of the catalog inserts   *)
(* nothing and fetches nothing, logs one warning, and the loop keeps       *)
(* waiting for events.                                                     *)
(***************************************************************************)
C7_UnknownCodeOnlyWarns ==
    [][(BotHandled /\ \A i \in 1..Len(GLOBAL_EMOTES_JSON) :
                          GLOBAL_EMOTES_JSON[i].name # Head(bot_messages).emote)
          => /\ active_emotes' = active_emotes
             /\ fetches' = fetches
             /\ warnings' = warnings + 1
             /\ pending' = None
             /\ pc' = "select"]_vars

\* a notification with an unknown code has been handled, and nothing else
C7_Witness ==
    /\ warnings = 1
    /\ fetches = 0
    /\ bot_messages = <<>>
    /\ active_emotes = <<>>
    /\ pc = "select"

(***************************************************************************)
(* C8.  A line that fails to decode is discarded and its producer reads    *)
(* on: the bot listener stays on its connection, the STDIN reader on its   *)
(* stream.                                                                 *)
(***************************************************************************)
C8_DecodeErrorKeepsProducer ==
    [][/\ ListenerDecodeFails => listener' = "reading"
       /\ ReaderDecodeFails => reader' = "reading"]_vars

(***************************************************************************)
(* C9.  No frame tick ends the render loop: whatever fails while an emote  *)
(* is composited or the frame is written, the loop goes back to waiting    *)
(* for events.                                                             *)
(***************************************************************************)
C9_TickNeverEndsLoop ==
    [][TickFires => pc' = "select"]_vars

(***************************************************************************)
(* C10.  A producer that has ended does not stop the render loop: while    *)
(* the loop waits for events, the timer arm completes when a frame is due  *)
(* and a channel's arm when a message is queued in it.                     *)
(***************************************************************************)
C10_LoopOutlivesProducers ==
    ((ListenerDone \/ ReaderDone) /\ pc = "select")
        => /\ TickDue => TickArm
           /\ bot_messages # <<>> => BotArm
           /\ tattoy_messages # <<>> => HostArm

\* the listener has ended; the loop waits with a frame due on a terminal
\* that has a size, an active emote and a queued host message
C10_Witness ==
    /\ ListenerDone
    /\ pc = "select"
    /\ TickDue
    /\ tattoy_messages # <<>>
    /\ active_emotes # <<>>
    /\ ~render_skips(tty.size)

(***************************************************************************)
(* C11.  Frame ticks are paced by the clock and never queued: a tick fires *)
(* no sooner than one frame period after the tick before it, and however   *)
(* late it fires, the next one is timed from the instant it fired, so that *)
(* no second tick is due at that instant.                                  *)
(***************************************************************************)
C11_TicksPacedNeverQueued ==
    [][TickFires
          => /\ now - last_frame_tick >= FramePeriod
             /\ last_frame_tick' = now'
             /\ ~TickDue']_vars

\* two frames have been written, the second one late: it fired more than a
\* frame period after it was due, and no further tick is due now
C11_Witness ==
    /\ stdout = 2
    /\ last_frame_tick = now
    /\ now > 2 * FramePeriod + FramePeriod
    /\ pc = "select"
    /\ ~TickArm

(***************************************************************************)
(* C12.  Frames are paced by the clock, whatever a composite takes.  As    *)
(* claimed: once CadenceSeconds have passed at the target rate on a        *)
(* terminal that has a size, the frames written number                     *)
(* CadenceSeconds * TARGET_FRAME_RATE, give or take one.                   *)
(***************************************************************************)
\* the window is over: the clock cannot advance within it and no tick is due
WindowOver ==
    /\ \A step \in CadenceSteps : now + step > CadenceWindow
    /\ ~TickDue
    /\ pc = "select"

C12_NinetyFramesWhateverCompositesTake ==
    WindowOver
        => /\ stdout >= CadenceSeconds * TARGET_FRAME_RATE - 1
           /\ stdout <= CadenceSeconds * TARGET_FRAME_RATE + 1

(***************************************************************************)
(* C12, amended.  At most one frame is written per frame period that has   *)
(* passed, so never more than CadenceSeconds * TARGET_FRAME_RATE in the    *)
(* window; the count is that number, give or take one, when every tick     *)
(* fired the moment it was due, and every handler that overruns the period *)
(* lowers it.                                                              *)
(***************************************************************************)
C12_FramesPacedByTime ==
    /\ stdout * FramePeriod <= last_frame_tick
    /\ last_frame_tick <= now
    /\ now <= CadenceWindow => stdout <= CadenceSeconds * TARGET_FRAME_RATE
    /\ (WindowOver /\ last_frame_tick = stdout * FramePeriod)
          => /\ stdout >= CadenceSeconds * TARGET_FRAME_RATE - 1
             /\ stdout <= CadenceSeconds * TARGET_FRAME_RATE + 1

\* the window is over after a handler of a second: every tick that fired on
\* time wrote its frame, and fewer frames were written than the rate gives
C12_Witness ==
    /\ WindowOver
    /\ stdout > 0
    /\ stdout < CadenceSeconds * TARGET_FRAME_RATE - 1
    /\ now - stdout * FramePeriod >= ONE_MICROSECOND

(***************************************************************************)
(* C17.  Several bot connections are served at the same time: while the    *)
(* listener runs, a connection that waits with a notification can be       *)
(* accepted, also when an earlier connection is still open and idle.       *)
(***************************************************************************)
C17_WaitingConnectionServed ==
    (Alive /\ ~ListenerDone /\ backlog # <<>>) => AcceptArm

(***************************************************************************)
(* C15.  A terminal update replaces size, cells and cursor by those of the *)
(* message and nothing of the snapshot before survives; when the snapshot  *)
(* already is that of the update, applying it again changes no character   *)
(* looked up at any column and row.                                        *)
(***************************************************************************)
C15_UpdateReplacesSnapshot ==
    [][(HostHandled /\ Head(tattoy_messages).kind = "PTYUpdate")
          => LET update == Head(tattoy_messages)
                 once   == /\ tty.size = update.size
                           /\ tty.cells = update.cells
                           /\ tty.cursor_position = update.cursor
             IN  /\ tty'.size = update.size
                 /\ tty'.cells = update.cells
                 /\ tty'.cursor_position = update.cursor
                 /\ once => /\ tty'.size = tty.size
                            /\ \A x \in 0..tty.size[1], y \in 0..tty.size[2] :
                                  CharAt(tty'.cells, x, y) = CharAt(tty.cells, x, y)]_vars

\* an emote was drawn on a snapshot with cells, and an update without cells
\* and without rows has replaced that snapshot
C15_Witness ==
    /\ output # <<>>
    /\ tty.size = <<4, 0>>
    /\ tty.cells = <<>>
    /\ tattoy_messages = <<>>
    /\ pc = "select"

(***************************************************************************)
(* C18.  Both channels deliver in the order of forwarding and lose         *)
(* nothing: a producer appends at the back, the loop takes the front, the  *)
(* notification taken is the one fetched and its emote is appended behind  *)
(* the emotes of the notifications before it; the update taken is the one  *)
(* that becomes the snapshot.                                              *)
(***************************************************************************)
C18_ChannelsFifo ==
    [][/\ Len(bot_messages') > Len(bot_messages)
          => /\ Len(bot_messages') = Len(bot_messages) + 1
             /\ SubSeq(bot_messages', 1, Len(bot_messages)) = bot_messages
       /\ BotHandled
          => /\ bot_messages' = Tail(bot_messages)
             /\ pending' # None => Unwrap(pending').message = Head(bot_messages)
       /\ Len(active_emotes') > Len(active_emotes)
          => /\ pending # None
             /\ Len(active_emotes') = Len(active_emotes) + 1
             /\ SubSeq(active_emotes', 1, Len(active_emotes)) = active_emotes
             /\ active_emotes'[Len(active_emotes')].regexish = Unwrap(pending).message.regexish
       /\ Len(tattoy_messages') > Len(tattoy_messages)
          => /\ Len(tattoy_messages') = Len(tattoy_messages) + 1
             /\ SubSeq(tattoy_messages', 1, Len(tattoy_messages)) = tattoy_messages
       /\ HostHandled
          => /\ tattoy_messages' = Tail(tattoy_messages)
             /\ Head(tattoy_messages).kind = "PTYUpdate"
                   => /\ tty'.size = Head(tattoy_messages).size
                      /\ tty'.cells = Head(tattoy_messages).cells]_vars

\* two notifications were fetched at different instants and their emotes
\* stand in that order, on a terminal that an update has given a size
C18_Witness ==
    /\ Len(active_emotes) = 2
    /\ active_emotes[1].timestamp < active_emotes[2].timestamp
    /\ ~render_skips(tty.size)
    /\ bot_messages = <<>>
    /\ pc = "select"

(***************************************************************************)
(* C19.  The effects of the two channels commute: from any state of the    *)
(* loop, handling the next notification and then the next terminal update  *)
(* gives the same terminal and the same registry, timestamps apart, as     *)
(* handling them the other way round.                                      *)
(***************************************************************************)
Untimed(emotes) ==
    [i \in 1..Len(emotes) |->
        [regexish |-> emotes[i].regexish, image |-> emotes[i].image]]

C19_ChannelEffectsCommute ==
    (/\ pc = "select"
     /\ bot_messages # <<>>
     /\ tattoy_messages # <<>>
     /\ Head(tattoy_messages).kind = "PTYUpdate")
        => \A first \in {now, now + 1}, second \in {now + 1, now + FramePeriod} :
              LET notification == Head(bot_messages)
                  update       == Head(tattoy_messages)
                  bot_host     == after_host(after_bot(Plugin, notification, first), update)
                  host_bot     == after_bot(after_host(Plugin, update), notification, second)
              IN  /\ bot_host.tty = host_bot.tty
                  /\ Untimed(bot_host.active_emotes) = Untimed(host_bot.active_emotes)

\* the loop waits with an emote in the registry, a notification of a known
\* code at the front of one channel and an update with a size at the front
\* of the other
C19_Witness ==
    /\ pc = "select"
    /\ active_emotes # <<>>
    /\ bot_messages # <<>>
    /\ resolve_emote(Head(bot_messages).emote) # None
    /\ tattoy_messages # <<>>
    /\ Head(tattoy_messages).kind = "PTYUpdate"
    /\ ~render_skips(Head(tattoy_messages).size)

(***************************************************************************)
(* C20.  An image is fetched once for each notification whose code is in   *)
(* the catalog, when that notification is handled, and at no other step:   *)
(* no frame tick fetches, and every emote enters the registry by the one   *)
(* fetch of its notification.                                              *)
(***************************************************************************)
C20_OneFetchPerResolvedNotification ==
    [][LET resolved ==
               /\ BotHandled
               /\ \E i \in 1..Len(GLOBAL_EMOTES_JSON) :
                      GLOBAL_EMOTES_JSON[i].name = Head(bot_messages).emote
       IN  /\ resolved => fetches' = fetches + 1
           /\ ~resolved => fetches' = fetches
           /\ TickFires => fetches' = fetches
           /\ Len(active_emotes') > Len(active_emotes)
                 => /\ Len(active_emotes') = Len(active_emotes) + 1
                    /\ pending # None
                    /\ pending' = None]_vars

\* one image was fetched and its emote is in the registry and in the pixels
\* of the second frame written
C20_Witness ==
    /\ fetches = 1
    /\ Len(active_emotes) = 1
    /\ stdout = 2
    /\ output # <<>>
    /\ pc = "select"

(***************************************************************************)
(* The text of the terminal, as the compositor's claims speak of it.       *)
(***************************************************************************)
\* the pattern stands in row y of the rebuilt text, from column x on
Occurs(term, pattern, x, y) ==
    /\ y < term.size[2]
    /\ x + Len(pattern) <= term.size[1]
    /\ SubSeq(Lines(term)[y + 1], x + 1, x + Len(pattern)) = pattern

\* the pattern is a contiguous part of some row of the rebuilt text
Present(term, pattern) ==
    \E y \in 0..(term.size[2] - 1), x \in 0..(term.size[1] - 1) :
        Occurs(term, pattern, x, y)

(***************************************************************************)
(* C13.  An emote whose pattern is in no row of the rebuilt text adds no   *)
(* pixel to the frame and stays in the registry: the frame of a tick is    *)
(* the frame of the emotes whose patterns are present, it is empty when    *)
(* none is, and the registry of emotes younger than ten seconds is kept.   *)
(***************************************************************************)
C13_AbsentPatternDrawsNothing ==
    [][(TickFires /\ ~render_skips(tty.size))
          => LET present == SelectSeq(active_emotes,
                                LAMBDA emote : Present(tty, emote.regexish))
             IN  /\ output' = render_emotes(tty, output, present, overflow_checks).output
                 /\ present = <<>> => (output' = <<>> /\ pc' # "panicked")
                 /\ \A i \in 1..Len(active_emotes) :
                       (/\ ~Present(tty, active_emotes[i].regexish)
                        /\ now - active_emotes[i].timestamp < TTL)
                          => \E j \in 1..Len(active_emotes') :
                                active_emotes'[j] = active_emotes[i]]_vars

\* a frame without pixels was written for a terminal with text, and the
\* emote whose pattern is not in that text is still in the registry
C13_Witness ==
    /\ stdout = 1
    /\ last_frame_tick = now
    /\ output = <<>>
    /\ tty.cells # <<>>
    /\ Len(active_emotes) = 1
    /\ ~Present(tty, active_emotes[1].regexish)

(***************************************************************************)
(* C14.  Locating a pattern gives the topmost row of the rebuilt text that *)
(* contains it and in that row its leftmost occurrence, as the number of   *)
(* characters before it, and nothing when no row contains it.  The row     *)
(* "hello world" and the pattern "world" give column 6 of row 0.           *)
(***************************************************************************)
C14_LocateTopmostLeftmost ==
    \A i \in 1..Len(active_emotes) :
        LET pattern == active_emotes[i].regexish
            found   == find_text_coordinates(tty, pattern)
        IN  /\ (found = None) = ~Present(tty, pattern)
            /\ found # None
                  => LET x == Unwrap(found)[1]
                         y == Unwrap(found)[2]
                     IN  /\ Occurs(tty, pattern, x, y)
                         /\ \A y2 \in 0..(tty.size[2] - 1), x2 \in 0..(tty.size[1] - 1) :
                               Occurs(tty, pattern, x2, y2)
                                  => (y < y2 \/ (y = y2 /\ x <= x2))
            /\ (tty.size = <<11, 1>> /\ pattern = Pattern_world)
                  => found = Some(<<6, 0>>)

\* the frame for the row "hello world" and the pattern "world" is written:
\* its first pixel is in column 6
C14_Witness ==
    /\ stdout = 1
    /\ tty.size = <<11, 1>>
    /\ Len(active_emotes) = 1
    /\ active_emotes[1].regexish = Pattern_world
    /\ output # <<>>
    /\ output[1].coordinates[1] = U32Of(6)

(***************************************************************************)
(* C16.  As claimed: the image drawn for a pattern of W bytes on a         *)
(* terminal of H rows was resized to W by H, whatever the source image:    *)
(* its pixels span W columns and H rows.                                   *)
(***************************************************************************)
\* the columns and the rows that the pixels of a frame span
DrawnWidth(out) == Cardinality({out[k].coordinates[1] : k \in 1..Len(out)})

DrawnHeight(out) == Cardinality({out[k].coordinates[2] : k \in 1..Len(out)})

\* this step draws the one emote of the registry
DrawsOneEmote ==
    /\ TickFires
    /\ Len(active_emotes) = 1
    /\ Present(tty, active_emotes[1].regexish)
    /\ pc' # "panicked"

MatchesOneEmote ==
    /\ TickFires
    /\ Len(active_emotes) = 1
    /\ Present(tty, active_emotes[1].regexish)

C23_AnchorNeverUnderflows ==
    [][MatchesOneEmote
          => /\ pc' # "panicked"
             /\ output' # <<>>
             /\ \A k \in 1..Len(output') : output'[k].coordinates[2][1] = 0]_vars

(***************************************************************************)
(* C24.  A found emote resized to w by h adds exactly w * h pixels, row by *)
(* row, the pixel (px, py) of the image at column col + px and row         *)
(* 2 * row - h / 2 + py, with the normalised colour of the image and alpha *)
(* one, no two at the same coordinates.                                    *)
(***************************************************************************)
C24_PixelsPlacedRowMajor ==
    [][MatchesOneEmote
          => LET emote   == active_emotes[1]
                 found   == Unwrap(find_text_coordinates(tty, emote.regexish))
                 resized == Resize(emote.image, StrLen(emote.regexish), tty.size[2])
                 top     == 2 * found[2] - resized.height \div 2
             IN  /\ pc' # "panicked"
                 /\ Len(output') = resized.width * resized.height
                 /\ top >= 0
                 /\ \A px \in 0..(resized.width - 1), py \in 0..(resized.height - 1) :
                       LET pixel == output'[py * resized.width + px + 1]
                       IN  /\ pixel.coordinates
                                = <<U32Of(found[1] + px), U32Of(top + py)>>
                           /\ pixel.color
                                = <<Normalised(emote.image.rgb[1]),
                                    Normalised(emote.image.rgb[2]),
                                    Normalised(emote.image.rgb[3]), Opaque>>
                 /\ \A k, l \in 1..Len(output') :
                       output'[k].coordinates = output'[l].coordinates => k = l]_vars

(***************************************************************************)
(* C25.  Every tick on a terminal that has a size writes exactly one       *)
(* frame, an empty one when nothing is drawn, unless STDOUT cannot be      *)
(* written.                                                                *)
(***************************************************************************)
C25_OneFramePerRenderedTick ==
    [][(TickFires /\ ~render_skips(tty.size) /\ pc' # "exited")
          => stdout' = stdout + 1]_vars

(***************************************************************************)
(* C29.  The rebuilt text has one line per row and one character per       *)
(* column: the character of the first cell with the coordinates of the     *)
(* position, or a blank when there is none; a cell outside the terminal    *)
(* is in no line.                                                          *)
(***************************************************************************)
C29_RowsRebuiltFromCells ==
    LET lines == Lines(tty)
    IN  /\ Len(lines) = tty.size[2]
        /\ \A y \in 1..Len(lines) :
              /\ Len(lines[y]) = tty.size[1]
              /\ \A x \in 1..Len(lines[y]) :
                    LET at == {i \in 1..Len(tty.cells) :
                                  tty.cells[i].coordinates = <<x - 1, y - 1>>}
                    IN  IF at = {} THEN lines[y][x] = " "
                        ELSE \E i \in at :
                                /\ \A j \in at : i <= j
                                /\ lines[y][x] = tty.cells[i].character

\* a frame was drawn on a terminal whose update has two cells with different
\* characters for one position
C29_Witness ==
    /\ stdout = 1
    /\ output # <<>>
    /\ \E i, j \in 1..Len(tty.cells) :
          /\ i < j
          /\ tty.cells[i].coordinates = tty.cells[j].coordinates
          /\ tty.cells[i].character # tty.cells[j].character

(***************************************************************************)
(* C30.  The image is resized to the number of characters of the pattern,  *)
(* also when the pattern has characters of several bytes: a drawn emote is *)
(* no wider than its pattern has characters.                               *)
(***************************************************************************)
C30_WidthIsCharacterCount ==
    [][DrawsOneEmote
          => DrawnWidth(output') <= Len(active_emotes[1].regexish)]_vars

(***************************************************************************)
(* C26.  The pixels of a frame are built anew on every rendered tick:      *)
(* each pixel of a written frame has the colour of an emote that is in the *)
(* registry after the tick and whose pattern is in the text, and the frame *)
(* has no more pixels than these emotes can draw; nothing of an earlier    *)
(* frame is carried over.                                                  *)
(***************************************************************************)
\* the pixels that the found emotes can draw: each at most the bytes of its
\* pattern wide and the rows of the terminal high
RECURSIVE PixelBudget(_, _)
PixelBudget(term, emotes) ==
    IF emotes = <<>> THEN 0
    ELSE (IF Present(term, Head(emotes).regexish)
          THEN StrLen(Head(emotes).regexish) * term.size[2] ELSE 0)
            + PixelBudget(term, Tail(emotes))

C26_FrameBuiltAnew ==
    [][(TickFires /\ stdout' = stdout + 1)
          => /\ Len(output') <= PixelBudget(tty, active_emotes')
             /\ \A k \in 1..Len(output') :
                   \E i \in 1..Len(active_emotes') :
                       /\ Present(tty, active_emotes'[i].regexish)
                       /\ now - active_emotes'[i].timestamp < TTL
                       /\ output'[k].color[1] = Normalised(active_emotes'[i].image.rgb[1])
                       /\ output'[k].color[2] = Normalised(active_emotes'[i].image.rgb[2])
                       /\ output'[k].color[3] = Normalised(active_emotes'[i].image.rgb[3])]_vars

\* a second frame is written, without pixels, after the emote drawn in the
\* first one has expired
C26_Witness ==
    /\ stdout = 2
    /\ output = <<>>
    /\ cleaned # <<>>
    /\ \E i \in 1..Len(cleaned) : Present(tty, cleaned[i].regexish)
    /\ last_frame_tick = now

(***************************************************************************)
(* C27.  A tick composites exactly the registry as its expiry left it, in  *)
(* the order of insertion: no emote of it is left out, and the frame is    *)
(* the list of the first emote's pixels, then the second's, and so on,     *)
(* each emote drawn as it would be alone, also where they overlap.         *)
(***************************************************************************)
RECURSIVE PixelLists(_, _, _)
PixelLists(term, emotes, checks) ==
    IF emotes = <<>> THEN <<>>
    ELSE render_emote(term, <<>>, Head(emotes), checks).output
            \o PixelLists(term, Tail(emotes), checks)

C27_CompositesRegistryInOrder ==
    [][(TickFires /\ ~render_skips(tty.size))
          => /\ pc' # "panicked"
             /\ active_emotes'
                   = SelectSeq(active_emotes,
                               LAMBDA emote : now - emote.timestamp < TTL)
             /\ output' = PixelLists(tty, active_emotes', overflow_checks)]_vars

(***************************************************************************)
(* C28.  Each handler writes its own part of the state only: a frame tick  *)
(* leaves the terminal as it is; a terminal update leaves the registry,    *)
(* the pixels and the frame timer; a notification, with its fetch, leaves  *)
(* the terminal and the pixels.                                            *)
(***************************************************************************)
C28_HandlersKeepToTheirState ==
    [][/\ TickFires => tty' = tty
       /\ HostHandled
          => /\ active_emotes' = active_emotes
             /\ output' = output
             /\ last_frame_tick' = last_frame_tick
       /\ (BotHandled \/ pc = "fetching")
          => /\ tty' = tty
             /\ output' = output]_vars

\* a tick, a terminal update and a notification have all been handled
C28_Witness ==
    /\ stdout = 1
    /\ output # <<>>
    /\ Len(active_emotes) = 1
    /\ host_lines = 1
    /\ tattoy_messages = <<>>
    /\ bot_messages = <<>>
    /\ pc = "select"

(***************************************************************************)
(* C22.  Both channels are bounded: neither the host channel nor the bot   *)
(* channel ever holds more messages than the capacity the program gives    *)
(* its channels.                                                           *)
(***************************************************************************)
C22_BothChannelsBounded ==
    /\ Len(tattoy_messages) <= ChannelCapacity
    /\ Len(bot_messages) <= ChannelCapacity

(***************************************************************************)
(* C21.  No source of events is starved: a message that is queued in       *)
(* either channel is handled in the end.  The loop does not run again once *)
(* it has ended, so it has not ended while a message is queued.            *)
(***************************************************************************)
C21_QueuedMessageIsHandled ==
    (bot_messages # <<>> \/ tattoy_messages # <<>>) => Alive

(***************************************************************************)
(* C31.  Handling a notification or a host message does not postpone the   *)
(* next frame tick: on every step that handles one, and on every step      *)
(* taken while the image of a notification is fetched, last_frame_tick     *)
(* stays what it was, so that the next tick is due exactly when one frame  *)
(* period has passed since the tick before.                                *)
(***************************************************************************)
C31_HandlersLeaveTheTickDue ==
    [][(BotHandled \/ HostHandled \/ pc = "fetching")
          => /\ last_frame_tick' = last_frame_tick
             /\ TickDue' <=> (now' - last_frame_tick >= FramePeriod)]_vars

\* a tick has fired, and one microsecond later a host update and a
\* notification have both been handled (nothing has been written for the
\* terminal's size, and the emote is younger than the tick): the tick after
\* is not due yet
C31_Witness ==
    /\ pc = "select"
    /\ last_frame_tick > 0
    /\ now = last_frame_tick + 1
    /\ ~render_skips(tty.size)
    /\ stdout = 0
    /\ active_emotes # <<>>
    /\ active_emotes[1].timestamp > last_frame_tick
    /\ ~TickArm

(***************************************************************************)
(* C32.  An emote is stamped with the instant it is inserted, which is the *)
(* instant its image fetch returns, however long the fetch took; and no    *)
(* step removes an emote during the ten seconds after that instant, so     *)
(* that every tick of those ten seconds finds it in the registry.          *)
(***************************************************************************)
C32_StampedWhenInserted ==
    [][/\ (pc = "fetching" /\ pc' = "select")
          => /\ Len(active_emotes') = Len(active_emotes) + 1
             /\ active_emotes'[Len(active_emotes')].timestamp = now'
       /\ \A i \in 1..Len(active_emotes) :
             now - active_emotes[i].timestamp < TTL
                => \E j \in 1..Len(active_emotes') :
                      active_emotes'[j] = active_emotes[i]]_vars

\* an emote inserted one microsecond short of ten seconds after the start has
\* been composited by a tick at ten seconds: a frame with its pixels is written
C32_Witness ==
    /\ pc = "select"
    /\ now = TTL
    /\ last_frame_tick = now
    /\ stdout = 1
    /\ output # <<>>
    /\ \E i \in 1..Len(active_emotes) : active_emotes[i].timestamp = TTL - 1

\* a text that starts with "!" and has no command word after it
NoCommandWord(text) ==
    /\ Len(text) >= 1
    /\ text[1] = "!"
    /\ \A i \in 2..Len(text) : IsWhitespace(text[i])

(***************************************************************************)
(* C33.  Handling a chat message never panics, whatever its text; and for  *)
(* a text that starts with "!" and has no command word after it, no        *)
(* command is dispatched.                                                  *)
(***************************************************************************)
C33_ChatMessageNeverPanics ==
    /\ bot_status # "panicked"
    /\ (printed # None /\ NoCommandWord(Unwrap(printed).text))
          => dispatched = None

(***************************************************************************)
(* C34.  A user's arrival sound is played at most once in twelve hours:    *)
(* when it is played, every earlier play of that user's sound lies twelve  *)
(* hours or more back; and a chat message that plays nothing leaves the    *)
(* user's last_played as it was.                                           *)
(***************************************************************************)
C34_ArrivalSoundOncePerTwelveHours ==
    [][\A username \in Users :
          /\ spawned'[username] # spawned[username]
                => \A i \in 1..Len(spawned[username]) :
                      utc - spawned[username][i]
                          >= ArrivalCooldownHours * ONE_HOUR
          /\ (/\ events' # events
              /\ spawned'[username] = spawned[username]
              /\ mate[username] # None)
                => mate'[username] = mate[username]]_vars

====
